---- MODULE Spec2Model ----
(***************************************************************************)
(* Rope simulator of 2022/09: a chain of knots chasing a head on the       *)
(* integer grid, driven by U/D/L/R moves read from a text file, and the    *)
(* set of distinct positions taken by the last knot.                       *)
(*                                                                         *)
(* Text is modelled as a sequence of one-character strings, a position as  *)
(* a record [x, y], a Bridge as a record [head, knots].                    *)
(***************************************************************************)
EXTENDS Integers, Sequences, FiniteSets, TLC

VARIABLES
    file,       \* content of the input file, a sequence of characters
    pos,        \* offset of the file handle in the file (characters consumed)
    lineno,     \* number of lines handed out by lines() so far
    nknots,     \* the number_of_knots argument of bridges()
    pc,         \* "Idle", "Running", "Done" or "Error"
    bridge,     \* the local variable bridge of bridges()
    pending,    \* what move.apply(bridge.head) has still to yield
    yielded,    \* every Bridge the generator bridges() has yielded, in order
    visited,    \* the set tail_positions being built by __main__
    output,     \* what was printed: <<>> or <<n>>
    err,        \* the uncaught exception, "" when there is none
    call,       \* a single call of a function: its name and arguments
    ret         \* what that call returned, [done |-> FALSE] before it returns

vars == <<file, pos, lineno, nknots, pc, bridge, pending, yielded, visited,
          output, err, call, ret>>

driverVars == <<file, pos, lineno, nknots, pc, bridge, pending, yielded,
                visited, output, err>>

----------------------------------------------------------------------------
(* Bounds of the model. *)

\* Largest number of lines of an enumerated input file.
MaxLines == 3

\* Largest number_of_knots of an enumerated run.
MaxKnots == 3

\* Coordinates of an enumerated call lie in -GridMax..GridMax.
GridMax == 2

\* Largest speed of an enumerated call of Move.apply.
MaxSpeed == 3

\* Largest number of characters of an enumerated call of Move.from_line.
MaxLineLen == 4

----------------------------------------------------------------------------
(* Coordinates *)

Coordinates(x, y) == [x |-> x, y |-> y]

Coordinates_add(self, other) == Coordinates(self.x + other.x, self.y + other.y)

Coordinates_sub(self, other) == Coordinates(self.x - other.x, self.y - other.y)

abs(n) == IF n < 0 THEN -n ELSE n

----------------------------------------------------------------------------
(* Text helpers: str.replace("\n", ""), str.split(" "), int(str) *)

\* line.replace("\n", ""): every newline character is dropped.
replace_newline(line) == SelectSeq(line, LAMBDA c : c # "\n")

\* s.split(sep) with an explicit one-character separator: one field per
\* separator plus one, empty fields kept.
RECURSIVE split(_, _)
split(s, sep) ==
    IF \A i \in 1..Len(s) : s[i] # sep
    THEN <<s>>
    ELSE LET i == CHOOSE j \in 1..Len(s) :
                      s[j] = sep /\ \A k \in 1..(j - 1) : s[k] # sep
         IN  <<SubSeq(s, 1, i - 1)>> \o split(SubSeq(s, i + 1, Len(s)), sep)

Whitespace == {" ", "\t", "\n", "\r", "\f"}

DigitChars == {"0", "1", "2", "3", "4", "5", "6", "7", "8", "9"}

DigitVal(c) ==
    CASE c = "0" -> 0 [] c = "1" -> 1 [] c = "2" -> 2 [] c = "3" -> 3
      [] c = "4" -> 4 [] c = "5" -> 5 [] c = "6" -> 6 [] c = "7" -> 7
      [] c = "8" -> 8 [] c = "9" -> 9

\* Leading and trailing whitespace removed, as int() does before parsing.
RECURSIVE strip(_)
strip(s) ==
    IF s = <<>> THEN s
    ELSE IF Head(s) \in Whitespace THEN strip(Tail(s))
    ELSE IF s[Len(s)] \in Whitespace THEN strip(SubSeq(s, 1, Len(s) - 1))
    ELSE s

\* Digits, with single underscores allowed between two digits.
IsDigits(s) ==
    /\ Len(s) > 0
    /\ \A i \in 1..Len(s) : s[i] \in DigitChars \cup {"_"}
    /\ s[1] # "_"
    /\ s[Len(s)] # "_"
    /\ \A i \in 1..(Len(s) - 1) : ~(s[i] = "_" /\ s[i + 1] = "_")

RECURSIVE DigitsValue(_)
DigitsValue(s) ==
    IF s = <<>> THEN 0
    ELSE IF s[Len(s)] = "_" THEN DigitsValue(SubSeq(s, 1, Len(s) - 1))
    ELSE 10 * DigitsValue(SubSeq(s, 1, Len(s) - 1)) + DigitVal(s[Len(s)])

\* int(s) for a str: [ok |-> TRUE, value |-> n], or ok FALSE where int()
\* raises ValueError.
int(s) ==
    LET t      == strip(s)
        signed == Len(t) > 0 /\ t[1] \in {"+", "-"}
        body   == IF signed THEN Tail(t) ELSE t
    IN  IF ~IsDigits(body) THEN [ok |-> FALSE, value |-> 0]
        ELSE [ok |-> TRUE,
              value |-> IF signed /\ t[1] = "-" THEN -DigitsValue(body)
                        ELSE DigitsValue(body)]

----------------------------------------------------------------------------
(* Direction and Move *)

\* Direction(value): the member of the enum with that value, ok FALSE where
\* the lookup raises ValueError.
Direction(value) ==
    CASE value = <<"U">> -> [ok |-> TRUE, member |-> "UP"]
      [] value = <<"D">> -> [ok |-> TRUE, member |-> "DOWN"]
      [] value = <<"R">> -> [ok |-> TRUE, member |-> "RIGHT"]
      [] value = <<"L">> -> [ok |-> TRUE, member |-> "LEFT"]
      [] OTHER -> [ok |-> FALSE, member |-> ""]

ValueError == [ok |-> FALSE, direction |-> "", speed |-> 0]

Move(direction, speed) == [ok |-> TRUE, direction |-> direction, speed |-> speed]

\* from_line taking a speed that int() refuses for 0.
from_line_default_speed(line) ==
    LET fields == split(replace_newline(line), " ")
    IN  IF Len(fields) # 2 THEN ValueError
        ELSE IF ~Direction(fields[1]).ok THEN ValueError
        ELSE IF ~int(fields[2]).ok THEN Move(Direction(fields[1]).member, 0)
        ELSE Move(Direction(fields[1]).member, int(fields[2]).value)

\* Move.from_line: split the line without its newlines at the spaces, unpack
\* exactly two fields, look the direction up, then convert the speed.
from_line(line) ==
    LET fields == split(replace_newline(line), " ")
    IN  IF Len(fields) # 2 THEN ValueError
        ELSE IF ~Direction(fields[1]).ok THEN ValueError
        ELSE IF ~int(fields[2]).ok THEN ValueError
        ELSE Move(Direction(fields[1]).member, int(fields[2]).value)

\* update with the two vertical directions exchanged.
update_flipped_y(coordinates, direction, offset) ==
    CASE direction = "UP" -> [coordinates EXCEPT !.y = coordinates.y - offset]
      [] direction = "DOWN" -> [coordinates EXCEPT !.y = coordinates.y + offset]
      [] direction = "RIGHT" -> [coordinates EXCEPT !.x = coordinates.x + offset]
      [] direction = "LEFT" -> [coordinates EXCEPT !.x = coordinates.x - offset]

\* update with the branch of LEFT copied from that of RIGHT.
update_left_adds(coordinates, direction, offset) ==
    CASE direction = "UP" -> [coordinates EXCEPT !.y = coordinates.y + offset]
      [] direction = "DOWN" -> [coordinates EXCEPT !.y = coordinates.y - offset]
      [] direction = "RIGHT" -> [coordinates EXCEPT !.x = coordinates.x + offset]
      [] direction = "LEFT" -> [coordinates EXCEPT !.x = coordinates.x + offset]

\* The inner function update of Move.apply.
update(coordinates, direction, offset) ==
    CASE direction = "UP" -> [coordinates EXCEPT !.y = coordinates.y + offset]
      [] direction = "DOWN" -> [coordinates EXCEPT !.y = coordinates.y - offset]
      [] direction = "RIGHT" -> [coordinates EXCEPT !.x = coordinates.x + offset]
      [] direction = "LEFT" -> [coordinates EXCEPT !.x = coordinates.x - offset]

\* range_len with a negative count taken for its magnitude.
range_len_abs(n) == IF n > 0 THEN n ELSE -n

\* len(range(n))
range_len(n) == IF n > 0 THEN n ELSE 0

\* apply yielding from offset 0: the starting position comes first.
apply_from_zero(move, coordinates) ==
    [offset \in 1..range_len(move.speed) |->
        update(coordinates, move.direction, offset - 1)]

\* Move.apply: everything the generator yields, in order.
apply(move, coordinates) ==
    [offset \in 1..range_len(move.speed) |->
        update(coordinates, move.direction, (offset - 1) + 1)]

----------------------------------------------------------------------------
(* Bridge *)

Bridge(head, knots) == [head |-> head, knots |-> knots]

Origin == Coordinates(0, 0)

\* Bridge.tail: knots[-1], ok FALSE where the index raises IndexError.
tail(self) ==
    IF Len(self.knots) = 0 THEN [ok |-> FALSE, at |-> Origin]
    ELSE [ok |-> TRUE, at |-> self.knots[Len(self.knots)]]

\* move_knot whose last branch moves on the x axis only.
move_knot_no_diagonal(knot, ahead_knot) ==
    LET relative == Coordinates_sub(ahead_knot, knot)
        offset ==
            IF abs(relative.x) <= 1 /\ abs(relative.y) <= 1
            THEN Coordinates(0, 0)
            ELSE IF relative.x = 0
            THEN Coordinates(0, IF relative.y > 0 THEN 1 ELSE -1)
            ELSE Coordinates(IF relative.x > 0 THEN 1 ELSE -1, 0)
    IN  Coordinates_add(knot, offset)

\* move_knot without the branch of the touching knots.
move_knot_always(knot, ahead_knot) ==
    LET relative == Coordinates_sub(ahead_knot, knot)
        offset ==
            IF relative.x = 0
            THEN Coordinates(0, IF relative.y > 0 THEN 1 ELSE -1)
            ELSE IF relative.y = 0
            THEN Coordinates(IF relative.x > 0 THEN 1 ELSE -1, 0)
            ELSE Coordinates(IF relative.x > 0 THEN 1 ELSE -1,
                             IF relative.y > 0 THEN 1 ELSE -1)
    IN  Coordinates_add(knot, offset)

\* move_knot with strict comparisons in the touching test.
move_knot_strict(knot, ahead_knot) ==
    LET relative == Coordinates_sub(ahead_knot, knot)
        offset ==
            IF abs(relative.x) < 1 /\ abs(relative.y) < 1
            THEN Coordinates(0, 0)
            ELSE IF relative.x = 0
            THEN Coordinates(0, IF relative.y > 0 THEN 1 ELSE -1)
            ELSE IF relative.y = 0
            THEN Coordinates(IF relative.x > 0 THEN 1 ELSE -1, 0)
            ELSE Coordinates(IF relative.x > 0 THEN 1 ELSE -1,
                             IF relative.y > 0 THEN 1 ELSE -1)
    IN  Coordinates_add(knot, offset)

\* move_knot stepping by the whole offset to the knot ahead.
move_knot_whole_offset(knot, ahead_knot) ==
    LET relative == Coordinates_sub(ahead_knot, knot)
        offset ==
            IF abs(relative.x) <= 1 /\ abs(relative.y) <= 1
            THEN Coordinates(0, 0)
            ELSE relative
    IN  Coordinates_add(knot, offset)

\* move_knot without the branches of the knot ahead in the same row or column.
move_knot_diagonal_only(knot, ahead_knot) ==
    LET relative == Coordinates_sub(ahead_knot, knot)
        offset ==
            IF abs(relative.x) <= 1 /\ abs(relative.y) <= 1
            THEN Coordinates(0, 0)
            ELSE Coordinates(IF relative.x > 0 THEN 1 ELSE -1,
                             IF relative.y > 0 THEN 1 ELSE -1)
    IN  Coordinates_add(knot, offset)

\* The inner function move_knot of Bridge.follow.
move_knot(knot, ahead_knot) ==
    LET relative == Coordinates_sub(ahead_knot, knot)
        offset ==
            IF abs(relative.x) <= 1 /\ abs(relative.y) <= 1
            THEN Coordinates(0, 0)
            ELSE IF relative.x = 0
            THEN Coordinates(0, IF relative.y > 0 THEN 1 ELSE -1)
            ELSE IF relative.y = 0
            THEN Coordinates(IF relative.x > 0 THEN 1 ELSE -1, 0)
            ELSE Coordinates(IF relative.x > 0 THEN 1 ELSE -1,
                             IF relative.y > 0 THEN 1 ELSE -1)
    IN  Coordinates_add(knot, offset)

\* follow_knots in which a knot follows the position the knot ahead of it had
\* before the step.
RECURSIVE follow_knots_stale(_, _)
follow_knots_stale(knots, ahead_knot) ==
    IF knots = <<>> THEN <<>>
    ELSE <<move_knot(Head(knots), ahead_knot)>>
           \o follow_knots_stale(Tail(knots), Head(knots))

\* The loop of Bridge.follow: each knot follows the new position of the knot
\* ahead of it.
RECURSIVE follow_knots(_, _)
follow_knots(knots, ahead_knot) ==
    IF knots = <<>> THEN <<>>
    ELSE LET moved == move_knot(Head(knots), ahead_knot)
         IN  <<moved>> \o follow_knots(Tail(knots), moved)

follow(self, head) == Bridge(head, follow_knots(self.knots, head))

----------------------------------------------------------------------------
(* The line reader of 2022/common.py *)

\* f.readline() with the handle at offset p: the characters up to and
\* including the next newline, or up to the end of the file.
readline(f, p) ==
    LET ends == {i \in (p + 1)..Len(f) : f[i] = "\n"}
        last == IF ends = {} THEN Len(f)
                ELSE CHOOSE i \in ends : \A j \in ends : i <= j
    IN  SubSeq(f, p + 1, last)

RECURSIVE lines_from_stripped(_, _)
lines_from_stripped(f, p) ==
    IF readline(f, p) = <<>> THEN <<>>
    ELSE <<SelectSeq(readline(f, p), LAMBDA c : c # "\n")>>
         \o lines_from_stripped(f, p + Len(readline(f, p)))

\* lines(filepath): every line readline() returns before the empty string,
\* read from offset p on.
RECURSIVE lines_from(_, _)
lines_from(f, p) ==
    IF readline(f, p) = <<>> THEN <<>>
    ELSE <<readline(f, p)>> \o lines_from(f, p + Len(readline(f, p)))

lines(f) == lines_from(f, 0)

----------------------------------------------------------------------------
(* Input files of the model *)

RECURSIVE Concat(_)
Concat(ss) == IF ss = <<>> THEN <<>> ELSE Head(ss) \o Concat(Tail(ss))

SeqsUpTo(S, n) == UNION {[1..k -> S] : k \in 0..n}

\* Well-formed lines with speed 1 or 2 in each direction.
GoodLines ==
    {<<d, " ", m, "\n">> : d \in {"U", "D", "L", "R"}, m \in {"1", "2"}}

\* Lines with an unknown direction, with speed 0, with a negative speed.
OddLines ==
    {<<"X", " ", "1", "\n">>, <<"U", " ", "0", "\n">>,
     <<"L", " ", "-", "1", "\n">>}

DriverLines == GoodLines \cup OddLines

\* The worked example of the puzzle.
ExampleFile ==
    Concat(<< <<"R", " ", "4", "\n">>, <<"U", " ", "4", "\n">>,
              <<"L", " ", "3", "\n">>, <<"D", " ", "1", "\n">>,
              <<"R", " ", "4", "\n">>, <<"D", " ", "1", "\n">>,
              <<"L", " ", "5", "\n">>, <<"R", " ", "2", "\n">> >>)

DriverFiles ==
    {Concat(ls) : ls \in SeqsUpTo(DriverLines, MaxLines)} \cup {ExampleFile}

----------------------------------------------------------------------------
(* The driver: bridges() consumed by the set comprehension of __main__ *)

NoCall == [fn |-> "none"]

NoRet == [done |-> FALSE]

Init ==
    /\ file \in DriverFiles
    /\ nknots \in 0..MaxKnots
    /\ pos = 0
    /\ lineno = 0
    /\ pc = "Idle"
    /\ bridge = Bridge(Origin, <<>>)
    /\ pending = <<>>
    /\ yielded = <<>>
    /\ visited = {}
    /\ output = <<>>
    /\ err = ""
    /\ call = NoCall
    /\ ret = NoRet

\* Collect keeping only the latest pair.
Collect_latest(b) ==
    IF tail(b).ok
    THEN /\ visited' = {<<tail(b).at.x, tail(b).at.y>>}
         /\ UNCHANGED <<pc, err>>
    ELSE /\ pc' = "Error"
         /\ err' = "IndexError"
         /\ UNCHANGED visited

\* What the comprehension does with a Bridge it is handed: the pair
\* (bridge.tail.x, bridge.tail.y) goes into the set.
Collect(b) ==
    IF tail(b).ok
    THEN /\ visited' = visited \cup {<<tail(b).at.x, tail(b).at.y>>}
         /\ UNCHANGED <<pc, err>>
    ELSE /\ pc' = "Error"
         /\ err' = "IndexError"
         /\ UNCHANGED visited

\* Start without the first chain state reaching the set.
Start_unseeded ==
    /\ pc = "Idle"
    /\ LET b == Bridge(Origin, [i \in 1..range_len(nknots) |-> Origin])
       IN  /\ bridge' = b
           /\ yielded' = <<b>>
           /\ IF tail(b).ok
              THEN /\ visited' = {}
                   /\ pc' = "Running"
                   /\ err' = err
              ELSE /\ visited' = visited
                   /\ pc' = "Error"
                   /\ err' = "IndexError"
    /\ UNCHANGED <<file, pos, lineno, nknots, pending, output, call, ret>>

\* bridges() up to its first yield.
Start ==
    /\ pc = "Idle"
    /\ LET b == Bridge(Origin, [i \in 1..range_len(nknots) |-> Origin])
       IN  /\ bridge' = b
           /\ yielded' = <<b>>
           /\ IF tail(b).ok
              THEN /\ visited' = {<<tail(b).at.x, tail(b).at.y>>}
                   /\ pc' = "Running"
                   /\ err' = err
              ELSE /\ visited' = visited
                   /\ pc' = "Error"
                   /\ err' = "IndexError"
    /\ UNCHANGED <<file, pos, lineno, nknots, pending, output, call, ret>>

\* NextLine going on to the following line when a line does not parse.
NextLine_skip ==
    /\ pc = "Running"
    /\ pending = <<>>
    /\ LET line == readline(file, pos)
           move == from_line(line)
       IN  /\ line # <<>>
           /\ pos' = pos + Len(line)
           /\ lineno' = lineno + 1
           /\ pending' = IF move.ok THEN apply(move, bridge.head) ELSE <<>>
           /\ UNCHANGED <<pc, err>>
    /\ UNCHANGED <<file, nknots, bridge, yielded, visited, output, call, ret>>

\* The next line is read and parsed, and move.apply(bridge.head) is set up.
NextLine ==
    /\ pc = "Running"
    /\ pending = <<>>
    /\ LET line == readline(file, pos)
           move == from_line(line)
       IN  /\ line # <<>>
           /\ pos' = pos + Len(line)
           /\ lineno' = lineno + 1
           /\ IF move.ok
              THEN /\ pending' = apply(move, bridge.head)
                   /\ UNCHANGED <<pc, err>>
              ELSE /\ pc' = "Error"
                   /\ err' = "ValueError"
                   /\ UNCHANGED pending
    /\ UNCHANGED <<file, nknots, bridge, yielded, visited, output, call, ret>>

\* Step leaving the rest of the move aside after its first unit step.
Step_first_only ==
    /\ pc = "Running"
    /\ pending # <<>>
    /\ LET b == follow(bridge, Head(pending))
       IN  /\ bridge' = b
           /\ yielded' = Append(yielded, b)
           /\ Collect(b)
    /\ pending' = <<>>
    /\ UNCHANGED <<file, pos, lineno, nknots, output, call, ret>>

\* One unit step: the bridge follows the next head position and is yielded.
Step ==
    /\ pc = "Running"
    /\ pending # <<>>
    /\ LET b == follow(bridge, Head(pending))
       IN  /\ bridge' = b
           /\ yielded' = Append(yielded, b)
           /\ Collect(b)
    /\ pending' = Tail(pending)
    /\ UNCHANGED <<file, pos, lineno, nknots, output, call, ret>>

\* Finish printing the number of chain states instead of the size of the set.
Finish_count_all ==
    /\ pc = "Running"
    /\ pending = <<>>
    /\ readline(file, pos) = <<>>
    /\ pc' = "Done"
    /\ output' = <<Len(yielded)>>
    /\ UNCHANGED <<file, pos, lineno, nknots, bridge, pending, yielded,
                   visited, err, call, ret>>

\* readline() returns the empty string: the generators end and the size of
\* the set is printed.
Finish ==
    /\ pc = "Running"
    /\ pending = <<>>
    /\ readline(file, pos) = <<>>
    /\ pc' = "Done"
    /\ output' = <<Cardinality(visited)>>
    /\ UNCHANGED <<file, pos, lineno, nknots, bridge, pending, yielded,
                   visited, err, call, ret>>

Next == Start \/ NextLine \/ Step \/ Finish

Spec == Init /\ [][Next]_vars

----------------------------------------------------------------------------
(* Properties of the driver *)

Touching(a, b) == abs(a.x - b.x) <= 1 /\ abs(a.y - b.y) <= 1

\* The head followed by the trailing knots.
Chain(b) == <<b.head>> \o b.knots

ChainTouching(b) ==
    \A i \in 1..(Len(Chain(b)) - 1) : Touching(Chain(b)[i], Chain(b)[i + 1])

\* C1: in every chain state a run of the driver produces, every adjacent
\* pair of knots, the head and the first trailing knot included, is at most
\* 1 apart on the x axis and at most 1 apart on the y axis.
C1_TouchingInvariant ==
    /\ \A i \in 1..Len(yielded) : ChainTouching(yielded[i])
    /\ pc # "Idle" => ChainTouching(bridge)

\* A chain of at least two trailing knots whose second trailing knot has left
\* the origin while the head stands diagonally off the first trailing knot.
C1_Witness ==
    /\ Len(bridge.knots) >= 2
    /\ bridge.knots[2] # Origin
    /\ bridge.head.x # bridge.knots[1].x
    /\ bridge.head.y # bridge.knots[1].y
    /\ bridge.knots[1] # bridge.knots[2]

\* C4: the moves R 4, U 4, L 3, D 1, R 4, D 1, L 5, R 2 with one trailing
\* knot give exactly 13 distinct tail positions.
C4_ExampleScenario ==
    (file = ExampleFile /\ nknots = 1 /\ pc = "Done") => output = <<13>>

C4_Witness ==
    file = ExampleFile /\ nknots = 1 /\ pc = "Done" /\ lineno = 8

\* The pair of coordinates of the last knot of a Bridge that has one.
LastKnotPair(b) == <<b.knots[Len(b.knots)].x, b.knots[Len(b.knots)].y>>

\* C5: the set of visited positions is exactly the set of positions of the
\* last knot over all chain states produced so far; it holds the origin from
\* the first chain state on, before any move is applied, and the position of
\* every later chain state whether or not the last knot moved.
C5_VisitedIsAllTails ==
    (pc # "Idle" /\ err # "IndexError") =>
        /\ visited = {LastKnotPair(yielded[i]) : i \in 1..Len(yielded)}
        /\ <<0, 0>> \in visited
        /\ LastKnotPair(yielded[Len(yielded)]) \in visited

\* The last knot stood still in the last unit step, two or more positions
\* have been visited, and the last knot is away from the origin.
C5_Witness ==
    /\ pc = "Running"
    /\ Len(yielded) >= 3
    /\ LastKnotPair(yielded[Len(yielded)]) = LastKnotPair(yielded[Len(yielded) - 1])
    /\ LastKnotPair(yielded[Len(yielded)]) # <<0, 0>>
    /\ Cardinality(visited) >= 2

\* C6: with no trailing knot the tail is the head, and the visited set is
\* the set of all positions the head has occupied, the origin included.
C6_HeadOnlyChain ==
    (nknots = 0 /\ pc # "Idle") =>
        /\ pc # "Error"
        /\ visited = {<<yielded[i].head.x, yielded[i].head.y>> :
                         i \in 1..Len(yielded)}

\* The move grammar: one of U, D, L, R, one space, a positive integer written
\* in decimal digits, and the newline that ends the line.
MatchesGrammar(line) ==
    /\ Len(line) >= 4
    /\ line[1] \in {"U", "D", "L", "R"}
    /\ line[2] = " "
    /\ line[Len(line)] = "\n"
    /\ \A i \in 3..(Len(line) - 1) : line[i] \in DigitChars
    /\ \E i \in 3..(Len(line) - 1) : line[i] # "0"

\* C9 as claimed: every line that does not match the move grammar aborts the
\* run, so a run that is still going or has finished has read only lines of
\* the grammar, and a line of magnitude 0 or below is never accepted.
C9_GrammarEnforced ==
    pc \in {"Running", "Done"} =>
        LET ls == lines(file)
        IN  \A i \in 1..lineno : MatchesGrammar(ls[i])

\* What the parser accepts: exactly two fields around a single space, the
\* first a direction letter, the second a text int() converts.
Accepted(line) ==
    LET text == replace_newline(line)
    IN  /\ Len(text) >= 2
        /\ text[1] \in {"U", "D", "L", "R"}
        /\ text[2] = " "
        /\ \A i \in 3..Len(text) : text[i] # " "
        /\ int(SubSeq(text, 3, Len(text))).ok

\* The integer written on an accepted line.
Magnitude(line) ==
    int(SubSeq(replace_newline(line), 3, Len(replace_newline(line)))).value

\* Number of unit steps of the first n lines of a sequence of accepted lines.
RECURSIVE StepsOf(_, _)
StepsOf(ls, n) ==
    IF n = 0 THEN 0
    ELSE StepsOf(ls, n - 1)
           + (IF Magnitude(ls[n]) > 0 THEN Magnitude(ls[n]) ELSE 0)

\* C9 as amended: a line aborts the run with ValueError exactly when it is
\* not of the accepted shape; an accepted line of magnitude 0 or below is
\* taken as a move and produces no unit step, the unit steps of a run being
\* those of the lines of positive magnitude.
C9_AcceptedLines ==
    LET ls == lines(file)
    IN  /\ \A i \in 1..lineno :
              Accepted(ls[i]) <=> (i < lineno \/ err # "ValueError")
        /\ (pc \in {"Running", "Done"}) =>
              Len(yielded) + Len(pending) = 1 + StepsOf(ls, lineno)

\* A line of magnitude 0 or below has been read and the run goes on to end
\* with a count.
C9_Witness ==
    /\ pc = "Done"
    /\ lineno >= 2
    /\ LET ls == lines(file)
       IN  /\ \E i \in 1..lineno : Accepted(ls[i]) /\ Magnitude(ls[i]) < 0
           /\ \E i \in 1..lineno : Accepted(ls[i]) /\ Magnitude(ls[i]) = 0

\* C10: when a line fails to parse the run stops at that line: nothing is
\* printed, every unit step of the lines before it has been made, and no
\* further step can be taken.
C10_AllOrNothing ==
    LET ls == lines(file)
    IN  /\ err = "ValueError" =>
              /\ pc = "Error"
              /\ output = <<>>
              /\ ~Accepted(ls[lineno])
              /\ \A i \in 1..(lineno - 1) : Accepted(ls[i])
              /\ Len(yielded) = 1 + StepsOf(ls, lineno - 1)
              /\ ~ENABLED Next
        /\ (pc = "Done" \/ output # <<>>) =>
              \A i \in 1..Len(ls) : Accepted(ls[i])

\* A run has stopped on its second line, after the two steps of the first
\* line and with a further line left unread.
C10_Witness ==
    /\ err = "ValueError"
    /\ lineno = 2
    /\ Len(yielded) = 3
    /\ Len(lines(file)) > lineno

----------------------------------------------------------------------------
(* Single calls of the functions, on enumerated arguments *)

\* The driver at rest while a single function is called.
DriverAtRest ==
    /\ file = <<>>
    /\ nknots = 1
    /\ pos = 0
    /\ lineno = 0
    /\ pc = "Idle"
    /\ bridge = Bridge(Origin, <<>>)
    /\ pending = <<>>
    /\ yielded = <<>>
    /\ visited = {}
    /\ output = <<>>
    /\ err = ""

Returned(value) == [done |-> TRUE, value |-> value]

Grid == {Coordinates(x, y) : x \in (-GridMax)..GridMax, y \in (-GridMax)..GridMax}

\* The positions at most d away from p on each axis.
Near(p, d) ==
    {Coordinates(p.x + dx, p.y + dy) : dx \in (-d)..d, dy \in (-d)..d}

(* move_knot(knot, ahead_knot) *)

InitKnot ==
    /\ DriverAtRest
    /\ \E knot \in Grid, ahead \in Grid :
          call = [fn |-> "move_knot", knot |-> knot, ahead_knot |-> ahead]
    /\ ret = NoRet

CallMoveKnot ==
    /\ call.fn = "move_knot"
    /\ ~ret.done
    /\ ret' = Returned(move_knot(call.knot, call.ahead_knot))
    /\ UNCHANGED <<driverVars, call>>

NextKnot == CallMoveKnot

SpecKnot == InitKnot /\ [][NextKnot]_vars

(* Bridge.follow(head) *)

\* The lists of at most n trailing knots in which the first touches ahead and
\* each of the others touches the one before it.
RECURSIVE TouchingKnots(_, _)
TouchingKnots(ahead, n) ==
    IF n = 0 THEN {<<>>}
    ELSE {<<>>} \cup
         UNION {{<<k>> \o rest : rest \in TouchingKnots(k, n - 1)} :
                   k \in Near(ahead, 1)}

FollowHeads == {Origin, Coordinates(-3, 5)}

\* Any chain whose adjacent knots touch, and a new head up to two cells away
\* from the old one.
InitFollow ==
    /\ DriverAtRest
    /\ \E h \in FollowHeads :
          \E knots \in TouchingKnots(h, MaxKnots), head \in Near(h, 2) :
              call = [fn |-> "follow", self |-> Bridge(h, knots), head |-> head]
    /\ ret = NoRet

CallFollow ==
    /\ call.fn = "follow"
    /\ ~ret.done
    /\ ret' = Returned(follow(call.self, call.head))
    /\ UNCHANGED <<driverVars, call>>

NextFollow == CallFollow

SpecFollow == InitFollow /\ [][NextFollow]_vars

(* Move.apply(coordinates) *)

Members == {"UP", "DOWN", "RIGHT", "LEFT"}

InitApply ==
    /\ DriverAtRest
    /\ \E d \in Members, m \in (-1)..MaxSpeed, p \in Grid :
          call = [fn |-> "apply", self |-> Move(d, m), coordinates |-> p]
    /\ ret = NoRet

CallApply ==
    /\ call.fn = "apply"
    /\ ~ret.done
    /\ ret' = Returned(apply(call.self, call.coordinates))
    /\ UNCHANGED <<driverVars, call>>

NextApply == CallApply

SpecApply == InitApply /\ [][NextApply]_vars

(* Move.from_line(line) *)

LineChars == {"U", "D", "L", "R", "X", " ", "\n", "-", "0", "1", "_"}

InitParse ==
    /\ DriverAtRest
    /\ \E line \in SeqsUpTo(LineChars, MaxLineLen) :
          call = [fn |-> "from_line", line |-> line]
    /\ ret = NoRet

CallFromLine ==
    /\ call.fn = "from_line"
    /\ ~ret.done
    /\ ret' = Returned(from_line(call.line))
    /\ UNCHANGED <<driverVars, call>>

NextParse == CallFromLine

SpecParse == InitParse /\ [][NextParse]_vars

----------------------------------------------------------------------------
(* Properties of the single calls *)

\* C2: for any chain whose adjacent knots touch and any new head at most one
\* cell away from the old head on each axis, follow returns a chain whose
\* adjacent knots touch.
C2_FollowPreservesTouching ==
    (ret.done /\ ChainTouching(call.self)
        /\ Touching(call.self.head, call.head)) =>
            ChainTouching(ret.value)

\* The head has moved diagonally and the last of three trailing knots has
\* moved on both axes.
C2_Witness ==
    /\ ret.done
    /\ Len(call.self.knots) = 3
    /\ Touching(call.self.head, call.head)
    /\ call.head.x # call.self.head.x
    /\ call.head.y # call.self.head.y
    /\ ret.value.knots[3].x # call.self.knots[3].x
    /\ ret.value.knots[3].y # call.self.knots[3].y

sign(n) == IF n > 0 THEN 1 ELSE -1

\* The offset of the knot-follow rule for a relative position.
RuleOffset(relative) ==
    CASE abs(relative.x) <= 1 /\ abs(relative.y) <= 1 -> Coordinates(0, 0)
      [] abs(relative.x) > 1 /\ relative.y = 0 ->
            Coordinates(sign(relative.x), 0)
      [] relative.x = 0 /\ abs(relative.y) > 1 ->
            Coordinates(0, sign(relative.y))
      [] OTHER -> Coordinates(sign(relative.x), sign(relative.y))

\* C3: move_knot returns knot + offset, the offset being (0,0) when the
\* relative position ahead - knot is within 1 on both axes, else one cell
\* along y when relative.x is 0, else one cell along x when relative.y is 0,
\* else one cell along both axes, each time towards the knot ahead.
C3_KnotFollowRule ==
    ret.done =>
        LET relative == [x |-> call.ahead_knot.x - call.knot.x,
                         y |-> call.ahead_knot.y - call.knot.y]
        IN  /\ ret.value.x = call.knot.x + RuleOffset(relative).x
            /\ ret.value.y = call.knot.y + RuleOffset(relative).y

\* A knot two columns and one row away from the knot ahead has moved.
C3_Witness ==
    /\ ret.done
    /\ call.ahead_knot.x - call.knot.x = -2
    /\ call.ahead_knot.y - call.knot.y = 1
    /\ ret.value = Coordinates(call.knot.x - 1, call.knot.y + 1)

\* The unit displacement of a direction.
Displacement(d) ==
    CASE d = "UP" -> Coordinates(0, 1)
      [] d = "DOWN" -> Coordinates(0, -1)
      [] d = "RIGHT" -> Coordinates(1, 0)
      [] d = "LEFT" -> Coordinates(-1, 0)

\* C7: a move of direction d and magnitude m >= 0 applied at p yields
\* exactly m positions, the k-th being p displaced k times by the unit
\* displacement of d; p itself is not among them.
C7_UnitStepExpander ==
    (ret.done /\ call.self.speed >= 0) =>
        /\ Len(ret.value) = call.self.speed
        /\ \A k \in 1..call.self.speed :
              /\ ret.value[k].x = call.coordinates.x
                                    + k * Displacement(call.self.direction).x
              /\ ret.value[k].y = call.coordinates.y
                                    + k * Displacement(call.self.direction).y
              /\ ret.value[k] # call.coordinates

\* A move of three cells to the left has been expanded.
C7_Witness ==
    /\ ret.done
    /\ call.self.speed = 3
    /\ call.self.direction = "LEFT"
    /\ Len(ret.value) = 3

\* The text of a line before its first space, newlines apart.
RECURSIVE DirectionText(_)
DirectionText(line) ==
    IF line = <<>> \/ Head(line) = " " THEN <<>>
    ELSE IF Head(line) = "\n" THEN DirectionText(Tail(line))
    ELSE <<Head(line)>> \o DirectionText(Tail(line))

\* The text of a line after its first space, newlines apart.
RECURSIVE MagnitudeText(_)
MagnitudeText(line) ==
    IF line = <<>> THEN <<>>
    ELSE IF Head(line) = " "
    THEN SelectSeq(Tail(line), LAMBDA c : c # "\n")
    ELSE MagnitudeText(Tail(line))

\* C8: from_line fails, producing no Move, whenever the direction letter of
\* the line is not one of U, D, L, R or the magnitude is not a text int()
\* converts.
C8_ParseFailure ==
    (ret.done /\ (\/ DirectionText(call.line) \notin
                        {<<"U">>, <<"D">>, <<"L">>, <<"R">>}
                  \/ ~int(MagnitudeText(call.line)).ok)) =>
        ret.value = ValueError

\* A line with a known direction and a magnitude that is no integer has
\* been refused.
C8_Witness ==
    /\ ret.done
    /\ DirectionText(call.line) = <<"D">>
    /\ MagnitudeText(call.line) = <<"1", "X">>
    /\ ~ret.value.ok

----------------------------------------------------------------------------
(* Further properties of the driver *)

\* The head positions of the unit steps of an accepted line, from position p.
Expansion(line, p) ==
    LET d == Displacement(Direction(DirectionText(line)).member)
        m == IF Magnitude(line) > 0 THEN Magnitude(line) ELSE 0
    IN  [k \in 1..m |-> Coordinates(p.x + k * d.x, p.y + k * d.y)]

\* The first chain state is produced and the run starts, or stops at once.
BeginsRun ==
    /\ pc = "Idle"
    /\ pc' \in {"Running", "Error"}
    /\ lineno' = 0
    /\ pending' = <<>>
    /\ Len(yielded') = 1

\* The next line of the input, and no other, is taken while no unit step of
\* the line before it is left; it is expanded from the current head, or the
\* run stops on it.
TakesNextMove ==
    /\ pc = "Running"
    /\ pending = <<>>
    /\ lineno < Len(lines(file))
    /\ lineno' = lineno + 1
    /\ yielded' = yielded
    /\ visited' = visited
    /\ bridge' = bridge
    /\ \/ pc' = "Error"
       \/ /\ pc' = "Running"
          /\ pending' = Expansion(lines(file)[lineno + 1], bridge.head)

\* A unit step: a chain step to the next position of the current move, then
\* the tail of the new chain recorded.
TakesUnitStep ==
    /\ pc = "Running"
    /\ pc' = "Running"
    /\ pending # <<>>
    /\ lineno' = lineno
    /\ pending' = Tail(pending)
    /\ bridge'.head = Head(pending)
    /\ yielded' = Append(yielded, bridge')
    /\ visited' = visited \cup {LastKnotPair(bridge')}

\* The input is exhausted and the run ends.
EndsRun ==
    /\ pc = "Running"
    /\ pc' = "Done"
    /\ pending = <<>>
    /\ lineno = Len(lines(file))
    /\ lineno' = lineno
    /\ yielded' = yielded
    /\ visited' = visited
    /\ bridge' = bridge

\* C11: a run goes from Idle to Running to Done and never back; the moves
\* are taken in input order, each unit step is a chain step followed by the
\* recording of the tail, the unit steps of a move all come before the next
\* move is taken, and after Done (or after a run has stopped on an error)
\* nothing changes any more.
C11_DriverStateMachine ==
    [][BeginsRun \/ TakesNextMove \/ TakesUnitStep \/ EndsRun]_vars

\* A run has ended after the unit steps of three moves.
C11_Witness ==
    /\ pc = "Done"
    /\ lineno = 3
    /\ Len(yielded) = 6

\* C14: across the steps of a run the visited set only gains elements, and
\* a unit step adds at most one: the cardinality never decreases and grows
\* by at most 1 per step.
C14_MonotonicVisited ==
    [][/\ visited \subseteq visited'
       /\ Cardinality(visited') >= Cardinality(visited)
       /\ Cardinality(visited') <= Cardinality(visited) + 1]_vars

\* Some unit steps have added a position and some have not.
C14_Witness ==
    /\ pc = "Running"
    /\ Cardinality(visited) >= 3
    /\ Len(yielded) >= Cardinality(visited) + 2

\* C16: when the input is exhausted, and only then, the program prints the
\* number of distinct (x, y) pairs the tail has taken over the whole run, two
\* positions of equal x and equal y counting once.
C16_ReportedAnswer ==
    /\ pc = "Done" =>
          output = <<Cardinality({LastKnotPair(yielded[i]) :
                                     i \in 1..Len(yielded)})>>
    /\ pc # "Done" => output = <<>>

\* A run has ended whose tail stood on fewer positions than there were chain
\* states.
C16_Witness ==
    /\ pc = "Done"
    /\ output[1] >= 3
    /\ Len(yielded) >= output[1] + 2

\* The displacement the puzzle gives to a direction letter.
LetterDisplacement(c) ==
    CASE c = "U" -> Coordinates(0, 1)
      [] c = "D" -> Coordinates(0, -1)
      [] c = "R" -> Coordinates(1, 0)
      [] c = "L" -> Coordinates(-1, 0)

\* C19: a unit step of a move displaces the head by (0,1) for U, (0,-1) for
\* D, (1,0) for R and (-1,0) for L, the letter being that of the line the
\* move was read from, and changes nothing else of the head.
C19_DirectionMapping ==
    [][(pc = "Running" /\ Len(yielded') = Len(yielded) + 1) =>
          LET d == LetterDisplacement(lines(file)[lineno][1])
          IN  bridge'.head = Coordinates(bridge.head.x + d.x,
                                         bridge.head.y + d.y)]_vars

\* The worked example, which moves in all four directions, has been run.
C19_Witness ==
    /\ file = ExampleFile
    /\ pc = "Done"
    /\ bridge.head = Coordinates(2, 2)

----------------------------------------------------------------------------
(* Further properties of the single calls *)

\* C12: follow(h) returns a chain whose head is h, with as many trailing
\* knots as before, each trailing knot being its old position moved by the
\* follow rule towards the new position of the knot ahead of it (the new head
\* for the first trailing knot).
C12_ChainStepOutput ==
    ret.done =>
        /\ ret.value.head = call.head
        /\ Len(ret.value.knots) = Len(call.self.knots)
        /\ \A i \in 1..Len(call.self.knots) :
              LET old   == call.self.knots[i]
                  ahead == IF i = 1 THEN call.head ELSE ret.value.knots[i - 1]
                  off   == RuleOffset(Coordinates(ahead.x - old.x,
                                                  ahead.y - old.y))
              IN  ret.value.knots[i] = Coordinates(old.x + off.x, old.y + off.y)

\* After a head move of one cell the second trailing knot has moved, which
\* the old position of the first trailing knot, touching it, could not cause.
C12_Witness ==
    /\ ret.done
    /\ Len(call.self.knots) >= 2
    /\ Touching(call.self.head, call.head)
    /\ ret.value.knots[1] # call.self.knots[1]
    /\ ret.value.knots[2] # call.self.knots[2]

\* C17: when the position ahead is the position of the knot, the follow rule
\* leaves the knot where it is.
C17_FollowRuleSymmetry ==
    (ret.done /\ call.ahead_knot = call.knot) => ret.value = call.knot

\* A knot away from the origin has followed a knot at its own position.
C17_Witness ==
    /\ ret.done
    /\ call.ahead_knot = call.knot
    /\ call.knot = Coordinates(-1, 2)

\* C18: a knot two cells away from the knot ahead on both axes moves one cell
\* towards it on both axes and ends up touching it; a knot at (0,0) with the
\* knot ahead at (2,2) moves to (1,1).
C18_DiagonalFollow ==
    LET dx == call.ahead_knot.x - call.knot.x
        dy == call.ahead_knot.y - call.knot.y
    IN  /\ (ret.done /\ abs(dx) = 2 /\ abs(dy) = 2) =>
              /\ ret.value.x = call.knot.x + (IF dx = 2 THEN 1 ELSE -1)
              /\ ret.value.y = call.knot.y + (IF dy = 2 THEN 1 ELSE -1)
              /\ Touching(ret.value, call.ahead_knot)
        /\ (ret.done /\ call.knot = Coordinates(0, 0)
                /\ call.ahead_knot = Coordinates(2, 2)) =>
              ret.value = Coordinates(1, 1)

\* The knot at (0,0) has followed the knot at (2,2).
C18_Witness ==
    /\ ret.done
    /\ call.knot = Coordinates(0, 0)
    /\ call.ahead_knot = Coordinates(2, 2)
    /\ ret.value = Coordinates(1, 1)

(* A move applied, then the opposite move applied to where the first led *)

Opposite(d) ==
    CASE d = "UP" -> "DOWN" [] d = "DOWN" -> "UP"
      [] d = "RIGHT" -> "LEFT" [] d = "LEFT" -> "RIGHT"

InitRoundTrip ==
    /\ DriverAtRest
    /\ \E d \in Members, m \in 1..MaxSpeed, p \in Grid :
          call = [fn |-> "apply", self |-> Move(d, m), coordinates |-> p,
                  back |-> Move(Opposite(d), m)]
    /\ ret = [done |-> FALSE, stage |-> 0, value |-> call.coordinates]

\* The first move is applied: the head ends on the last position yielded.
ApplyThere ==
    /\ ret.stage = 0
    /\ LET steps == apply(call.self, call.coordinates)
       IN  ret' = [done |-> FALSE, stage |-> 1, value |-> steps[Len(steps)]]
    /\ UNCHANGED <<driverVars, call>>

\* The opposite move is applied from there.
ApplyBack ==
    /\ ret.stage = 1
    /\ LET steps == apply(call.back, ret.value)
       IN  ret' = [done |-> TRUE, stage |-> 2, value |-> steps[Len(steps)]]
    /\ UNCHANGED <<driverVars, call>>

NextRoundTrip == ApplyThere \/ ApplyBack

SpecRoundTrip == InitRoundTrip /\ [][NextRoundTrip]_vars

\* C20: from every starting position, a unit step Right followed by a unit
\* step Left leads back to the starting position, and likewise Up followed
\* by Down; the same holds in the other order and for moves of equal speed.
C20_DirectionRoundTrip ==
    ret.done => ret.value = call.coordinates

\* One unit step to the right and one to the left have been made.
C20_Witness ==
    /\ ret.done
    /\ call.self = Move("RIGHT", 1)
    /\ call.back = Move("LEFT", 1)
    /\ call.coordinates = Coordinates(1, -2)

----------------------------------------------------------------------------
(* Bridge.follow on objects: which objects a call creates and which it      *)
(* writes. A heap holds the Coordinates objects, the lists and the Bridge   *)
(* objects, each kind numbered from 1; an object is named by its number.    *)

Heap(coords, lists, bridges) ==
    [coords |-> coords, lists |-> lists, bridges |-> bridges]

\* A new Coordinates object.
new_Coordinates(h, value) ==
    [heap |-> [h EXCEPT !.coords = Append(@, value)],
     ref  |-> Len(h.coords) + 1]

\* __add__ written as an update of self.
obj_add_in_place(h, self, other) ==
    [heap |-> [h EXCEPT !.coords[self] =
                           Coordinates_add(h.coords[self], h.coords[other])],
     ref  |-> self]

\* Coordinates.__add__: a new object, self and other only read.
obj_add(h, self, other) ==
    new_Coordinates(h, Coordinates_add(h.coords[self], h.coords[other]))

\* Coordinates.__sub__: a new object, self and other only read.
obj_sub(h, self, other) ==
    new_Coordinates(h, Coordinates_sub(h.coords[self], h.coords[other]))

\* move_knot on objects: relative, offset and the result are new objects.
obj_move_knot(h, knot, ahead_knot) ==
    LET r        == obj_sub(h, ahead_knot, knot)
        relative == r.heap.coords[r.ref]
        o == new_Coordinates(r.heap,
                IF abs(relative.x) <= 1 /\ abs(relative.y) <= 1
                THEN Coordinates(0, 0)
                ELSE IF relative.x = 0
                THEN Coordinates(0, IF relative.y > 0 THEN 1 ELSE -1)
                ELSE IF relative.y = 0
                THEN Coordinates(IF relative.x > 0 THEN 1 ELSE -1, 0)
                ELSE Coordinates(IF relative.x > 0 THEN 1 ELSE -1,
                                 IF relative.y > 0 THEN 1 ELSE -1))
    IN  obj_add(o.heap, knot, o.ref)

\* The loop of follow: each moved knot is appended to the list out.
RECURSIVE obj_follow_loop(_, _, _, _)
obj_follow_loop(h, knots, ahead_knot, out) ==
    IF knots = <<>> THEN h
    ELSE LET m == obj_move_knot(h, Head(knots), ahead_knot)
         IN  obj_follow_loop([m.heap EXCEPT !.lists[out] = Append(@, m.ref)],
                             Tail(knots), m.ref, out)

\* Bridge.follow on objects: a new list, filled by the loop, and a new Bridge
\* that holds the head it was given and the new list.
obj_follow(h, self, head) ==
    LET out    == Len(h.lists) + 1
        h1     == [h EXCEPT !.lists = Append(@, <<>>)]
        h2     == obj_follow_loop(h1, h.lists[h.bridges[self].knots], head, out)
    IN  [heap |-> [h2 EXCEPT !.bridges = Append(@, [head |-> head, knots |-> out])],
         ref  |-> Len(h2.bridges) + 1]

\* A Bridge of the given head and knots as objects, each position an object
\* of its own, and one more object for the new head.
HeapOf(b, head) ==
    Heap(<<b.head>> \o b.knots \o <<head>>,
         << [i \in 1..Len(b.knots) |-> i + 1] >>,
         << [head |-> 1, knots |-> 1] >>)

\* follow is called with a new head object or with the head of the Bridge.
InitFrame ==
    /\ DriverAtRest
    /\ \E knots \in TouchingKnots(Origin, MaxKnots), head \in Near(Origin, 1) :
          \E arg \in {1, Len(knots) + 2} :
              call = [fn |-> "obj_follow",
                      heap |-> HeapOf(Bridge(Origin, knots), head),
                      self |-> 1, head |-> arg]
    /\ ret = NoRet

CallObjFollow ==
    /\ call.fn = "obj_follow"
    /\ ~ret.done
    /\ ret' = Returned(obj_follow(call.heap, call.self, call.head))
    /\ UNCHANGED <<driverVars, call>>

NextFrame == CallObjFollow

SpecFrame == InitFrame /\ [][NextFrame]_vars

\* C15: after follow(h) returns, every object that existed before the call,
\* the Bridge it was called on, its list of knots and every position among
\* them, is as it was; the Bridge returned, its list and its knots are
\* objects that did not exist before.
C15_FollowLeavesInput ==
    ret.done =>
        LET before == call.heap
            after  == ret.value.heap
            result == after.bridges[ret.value.ref]
        IN  /\ \A i \in 1..Len(before.coords) : after.coords[i] = before.coords[i]
            /\ \A i \in 1..Len(before.lists) : after.lists[i] = before.lists[i]
            /\ \A i \in 1..Len(before.bridges) :
                  after.bridges[i] = before.bridges[i]
            /\ ret.value.ref > Len(before.bridges)
            /\ result.knots > Len(before.lists)
            /\ Len(after.lists[result.knots]) = Len(before.lists[1])
            /\ \A i \in 1..Len(after.lists[result.knots]) :
                  after.lists[result.knots][i] > Len(before.coords)

\* Of three trailing knots the first has moved and the last has not.
C15_Witness ==
    /\ ret.done
    /\ Len(call.heap.lists[1]) = 3
    /\ LET after == ret.value.heap
           new   == after.lists[after.bridges[ret.value.ref].knots]
       IN  /\ after.coords[new[1]] # call.heap.coords[2]
           /\ after.coords[new[3]] = call.heap.coords[4]

----------------------------------------------------------------------------
(* The line readers called on their own *)

MaxFileLen == 5

FileChars == {"a", "b", "\n"}

\* s[start:stop] of a Python sequence: a negative index counts from the
\* end, and both ends are clamped to the sequence.
clamp(i, n) ==
    IF i < 0 THEN (IF i + n < 0 THEN 0 ELSE i + n)
    ELSE IF i > n THEN n ELSE i

slice(s, start, stop) ==
    SubSeq(s, clamp(start, Len(s)) + 1, clamp(stop, Len(s)))

\* lines(input_path) of 2023/common.py: every line readline() returns
\* before the empty string, yielded as line[:-1].
RECURSIVE lines_2023_from(_, _)
lines_2023_from(f, p) ==
    IF readline(f, p) = <<>> THEN <<>>
    ELSE <<slice(readline(f, p), 0, -1)>>
         \o lines_2023_from(f, p + Len(readline(f, p)))

lines_2023(f) == lines_2023_from(f, 0)

InitLines ==
    /\ DriverAtRest
    /\ \E f \in SeqsUpTo(FileChars, MaxFileLen) :
          call = [fn |-> "lines", f |-> f]
    /\ ret = NoRet

CallLines ==
    /\ call.fn = "lines"
    /\ ~ret.done
    /\ ret' = Returned(lines(call.f))
    /\ UNCHANGED <<driverVars, call>>

NextLines == CallLines

SpecLines == InitLines /\ [][NextLines]_vars

InitLines2023 ==
    /\ DriverAtRest
    /\ \E f \in SeqsUpTo(FileChars, MaxFileLen) :
          call = [fn |-> "lines_2023", f |-> f]
    /\ ret = NoRet

CallLines2023 ==
    /\ call.fn = "lines_2023"
    /\ ~ret.done
    /\ ret' = Returned(lines_2023(call.f))
    /\ UNCHANGED <<driverVars, call>>

NextLines2023 == CallLines2023

SpecLines2023 == InitLines2023 /\ [][NextLines2023]_vars

\* The physical lines of a file, each without its record separator: the
\* fields between newlines, a newline at the very end opening no new line.
PhysicalLines(f) ==
    LET fields == split(f, "\n")
    IN  IF fields[Len(fields)] = <<>>
        THEN SubSeq(fields, 1, Len(fields) - 1)
        ELSE fields

EndsWithNewline(s) == s # <<>> /\ s[Len(s)] = "\n"

\* C21 as stated: lines(path) yields, in file order, one element per
\* physical line, each being the line's text without its trailing newline.
C21_LinesStripped ==
    (call.fn = "lines" /\ ret.done) => ret.value = PhysicalLines(call.f)

\* C21: lines(path) yields, in file order, one element per physical line,
\* each being the line's text followed by its newline; only a last line that
\* the file does not terminate comes without one.
C21_LinesKeepNewline ==
    (call.fn = "lines" /\ ret.done) =>
        LET phys == PhysicalLines(call.f)
        IN  /\ Len(ret.value) = Len(phys)
            /\ \A i \in 1..Len(phys) :
                  ret.value[i] =
                      IF i < Len(phys) \/ EndsWithNewline(call.f)
                      THEN phys[i] \o <<"\n">>
                      ELSE phys[i]

C21_Witness ==
    /\ call.fn = "lines"
    /\ ret.done
    /\ Len(ret.value) = 3
    /\ ret.value[1] = <<"a", "\n">>
    /\ ret.value[2] = <<"\n">>
    /\ ret.value[3] = <<"b">>

\* C22: the 2023 reader yields, in file order, every line's content with
\* only the trailing newline removed, a last line the file does not
\* terminate keeping its last character.
C22_StripsOnlyNewline ==
    (call.fn = "lines_2023" /\ ret.done) =>
        ret.value = PhysicalLines(call.f)

----------------------------------------------------------------------------
(* Day 10: registers(instructions) *)

MaxInstr == 3

\* registers(): the values yielded for the instructions left, the register
\* holding `register`; ok is FALSE when an addx line raises ValueError
\* (unpacking the fields, or int()), after the values yielded until then.
RECURSIVE registers_from(_, _)
registers_from(instructions, register) ==
    IF instructions = <<>> THEN [ok |-> TRUE, values |-> <<>>]
    ELSE LET instruction == Head(instructions)
             rest == Tail(instructions)
         IN  IF slice(instruction, 0, 4) = <<"n", "o", "o", "p">>
             THEN LET after == registers_from(rest, register)
                  IN  [ok |-> after.ok, values |-> <<register>> \o after.values]
             ELSE IF slice(instruction, 0, 4) = <<"a", "d", "d", "x">>
             THEN LET fields == split(replace_newline(instruction), " ")
                  IN  IF Len(fields) # 2 \/ ~int(fields[2]).ok
                      THEN [ok |-> FALSE, values |-> <<register>>]
                      ELSE LET value == int(fields[2]).value
                               after == registers_from(rest, register + value)
                           IN  [ok |-> after.ok,
                                values |-> <<register, register + value>>
                                           \o after.values]
             ELSE registers_from(rest, register)

registers_no_first_yield(instructions) == registers_from(instructions, 1)

registers(instructions) ==
    LET after == registers_from(instructions, 1)
    IN  [ok |-> after.ok, values |-> <<1>> \o after.values]

\* The operands of the addx instructions of the model
AddxValues == {-2, 1, 3}

Noop == [op |-> "noop", v |-> 0]

Addx(v) == [op |-> "addx", v |-> v]

Program == {Noop} \cup {Addx(v) : v \in AddxValues}

Numeral(v) ==
    LET digit(d) == CHOOSE c \in DigitChars : DigitVal(c) = d
    IN  IF v < 0 THEN <<"-", digit(-v)>> ELSE <<digit(v)>>

\* The input line of an instruction
Text(i) ==
    IF i.op = "noop" THEN <<"n", "o", "o", "p", "\n">>
    ELSE <<"a", "d", "d", "x", " ">> \o Numeral(i.v) \o <<"\n">>

\* Lines that are no instruction of the CPU: one the code skips, one on
\* which it raises.
StrayLines == {<<"n", "o", "p", "\n">>, <<"a", "d", "d", "x", "\n">>}

InstructionLines == {Text(i) : i \in Program} \cup StrayLines

InitCpu ==
    /\ DriverAtRest
    /\ \E instructions \in SeqsUpTo(InstructionLines, MaxInstr) :
          call = [fn |-> "registers", instructions |-> instructions]
    /\ ret = NoRet

CallRegisters ==
    /\ call.fn = "registers"
    /\ ~ret.done
    /\ ret' = Returned(registers(call.instructions))
    /\ UNCHANGED <<driverVars, call>>

NextCpu == CallRegisters

SpecCpu == InitCpu /\ [][NextCpu]_vars

\* The CPU of the puzzle, cycle by cycle: the value of X during each cycle
\* the program occupies, X being x when the program starts.
RECURSIVE DuringCycles(_, _)
DuringCycles(program, x) ==
    IF program = <<>> THEN <<>>
    ELSE IF Head(program).op = "noop"
         THEN <<x>> \o DuringCycles(Tail(program), x)
         ELSE <<x, x>> \o DuringCycles(Tail(program), x + Head(program).v)

RECURSIVE SumOfOperands(_)
SumOfOperands(program) ==
    IF program = <<>> THEN 0
    ELSE Head(program).v + SumOfOperands(Tail(program))

\* C23: for a program of noop and addx V lines, the k-th value registers()
\* yields is the value of X during cycle k, starting at 1: a noop takes one
\* cycle, an addx two, both of them showing the value before the addition;
\* the value after the last instruction closes the sequence.
C23_RegisterDuringCycle ==
    (call.fn = "registers" /\ ret.done) =>
        \A program \in SeqsUpTo(Program, Len(call.instructions)) :
            call.instructions = [i \in 1..Len(program) |-> Text(program[i])]
            => /\ ret.value.ok
               /\ ret.value.values =
                      DuringCycles(program, 1)
                      \o <<1 + SumOfOperands(program)>>

C23_Witness ==
    /\ call.fn = "registers"
    /\ ret.done
    /\ call.instructions = <<Text(Noop), Text(Addx(3)), Text(Addx(-2))>>
    /\ ret.value.values = <<1, 1, 1, 4, 4, 2>>

----------------------------------------------------------------------------
(* Day 5: Move9001.apply(queues) *)

MaxHeight == 2

Crates == {"A", "B"}

QueueIndexes == {0, 1, 2}

\* Move9001(depth, origin, target): origin and target index the list from 0
Move9001(depth, origin, target) ==
    [depth |-> depth, origin |-> origin, target |-> target]

\* queues[i] of a Python list kept as a sequence
getitem(queues, i) == queues[i + 1]

\* Move9001.apply: the list returned, and the caller's list after the call.
\* All the work is done on the deep copy: the += extends the target list in
\* place, so the origin list sees it when origin and target are one stack.
Move9001_apply(self, queues) ==
    LET copy == queues
        origin_queue == getitem(copy, self.origin)
        target_queue == getitem(copy, self.target)
        extended ==
            [copy EXCEPT ![self.target + 1] =
                target_queue
                \o slice(origin_queue, -self.depth, Len(origin_queue))]
        returned ==
            [extended EXCEPT ![self.origin + 1] =
                slice(getitem(extended, self.origin), 0, -self.depth)]
    IN  [queues |-> returned, passed |-> queues]

InitCrates ==
    /\ DriverAtRest
    /\ \E queues \in [1..Cardinality(QueueIndexes) -> SeqsUpTo(Crates, MaxHeight)],
          depth \in 0..(MaxHeight + 1),
          origin \in QueueIndexes, target \in QueueIndexes :
          call = [fn |-> "Move9001.apply",
                  self |-> Move9001(depth, origin, target),
                  queues |-> queues]
    /\ ret = NoRet

CallApply9001 ==
    /\ call.fn = "Move9001.apply"
    /\ ~ret.done
    /\ ret' = Returned(Move9001_apply(call.self, call.queues))
    /\ UNCHANGED <<driverVars, call>>

NextCrates == CallApply9001

SpecCrates == InitCrates /\ [][NextCrates]_vars

\* The stacks after the top d crates of stack o went, in their order, onto
\* the top of stack t.
TopMoved(queues, d, o, t) ==
    LET height == Len(getitem(queues, o))
        top == SubSeq(getitem(queues, o), height - d + 1, height)
        lifted == [queues EXCEPT ![o + 1] = SubSeq(@, 1, height - d)]
    IN  [lifted EXCEPT ![t + 1] = @ \o top]

\* C24: for every depth d from 0 to the height of the origin stack,
\* Move9001.apply returns the stacks with exactly the top d crates of the
\* origin stack moved, in their order, onto the target stack, every other
\* stack unchanged, and leaves the stacks passed in as they were.
C24_TopCratesMoved ==
    (call.fn = "Move9001.apply" /\ ret.done
        /\ call.self.depth <= Len(getitem(call.queues, call.self.origin))) =>
        /\ ret.value.queues =
               TopMoved(call.queues, call.self.depth,
                        call.self.origin, call.self.target)
        /\ ret.value.passed = call.queues

----------------------------------------------------------------------------
(* The knots of the chain from one unit step of a run to the next *)

\* The chain states before and after the latest unit step of the run
Before == yielded[Len(yielded) - 1]

After == yielded[Len(yielded)]

StepTaken == Len(yielded) >= 2

\* C25: whenever move_knot is invoked in a run, the knot ahead, already at
\* its new position, is at most 2 away from the knot on the x axis and at
\* most 2 away on the y axis, for every knot of the chain.
C25_BoundedGap ==
    StepTaken =>
        \A i \in 1..Len(Before.knots) :
            LET relative == Coordinates_sub(Chain(After)[i], Before.knots[i])
            IN  abs(relative.x) <= 2 /\ abs(relative.y) <= 2

\* A knot behind the first one was invoked with the knot ahead two away on
\* both axes.
C25_Witness ==
    /\ StepTaken
    /\ \E i \in 2..Len(Before.knots) :
          LET relative == Coordinates_sub(Chain(After)[i], Before.knots[i])
          IN  abs(relative.x) = 2 /\ abs(relative.y) = 2

\* C26: in every unit step of a run each trailing knot ends at most 1 away
\* from where it was on the x axis and at most 1 away on the y axis.
C26_OneCellPerStep ==
    StepTaken =>
        \A i \in 1..Len(Before.knots) :
            Touching(Before.knots[i], After.knots[i])

\* The tail has moved diagonally in a step, the knot ahead of it straight.
C26_Witness ==
    /\ StepTaken
    /\ Len(After.knots) >= 2
    /\ LET n == Len(After.knots)
           moved(i) == Coordinates_sub(After.knots[i], Before.knots[i])
       IN  /\ abs(moved(n).x) = 1 /\ abs(moved(n).y) = 1
           /\ abs(moved(n - 1).x) + abs(moved(n - 1).y) = 1

\* C27: in every unit step of a run, a knot that keeps its position has only
\* knots behind it that keep theirs.
C27_StillnessPropagates ==
    StepTaken =>
        \A i \in 1..Len(Chain(Before)) :
            Chain(After)[i] = Chain(Before)[i] =>
                \A j \in i..Len(Chain(Before)) :
                    Chain(After)[j] = Chain(Before)[j]

\* The first trailing knot has moved, the second has not, and the third,
\* standing elsewhere, has not either.
C27_Witness ==
    /\ StepTaken
    /\ Len(After.knots) = 3
    /\ After.knots[1] # Before.knots[1]
    /\ After.knots[2] = Before.knots[2]
    /\ After.knots[3] = Before.knots[3]
    /\ After.knots[3] # After.knots[2]

\* The positions the head has occupied so far
HeadsSoFar == {yielded[i].head : i \in 1..Len(yielded)}

\* C28: at every point of a run each trailing knot has its x between the
\* least and the greatest x the head has occupied so far, and its y between
\* the least and the greatest y the head has occupied so far.
C28_BoundingBox ==
    yielded # <<>> =>
        \A i \in 1..Len(After.knots) :
            /\ \E h \in HeadsSoFar : h.x <= After.knots[i].x
            /\ \E h \in HeadsSoFar : h.x >= After.knots[i].x
            /\ \E h \in HeadsSoFar : h.y <= After.knots[i].y
            /\ \E h \in HeadsSoFar : h.y >= After.knots[i].y

\* A trailing knot stands on the greatest x the head has reached while the
\* head has come back from it.
C28_Witness ==
    /\ StepTaken
    /\ \E i \in 1..Len(After.knots) :
          /\ After.knots[i].x > After.head.x
          /\ \A h \in HeadsSoFar : h.x <= After.knots[i].x

----------------------------------------------------------------------------
(* Day 20: mix_item(item, current_list) *)

MaxItems == 5

MaxValue == 5

Input(value, position) == [value |-> value, position |-> position]

\* current_list.index(item): the 0-based place of the first equal element
index(current_list, item) ==
    (CHOOSE i \in 1..Len(current_list) :
        /\ current_list[i] = item
        /\ \A j \in 1..(i - 1) : current_list[j] # item) - 1

\* The list after list.pop(i), 0 <= i < len(list)
pop(list, i) == SubSeq(list, 1, i) \o SubSeq(list, i + 2, Len(list))

\* mix_item: ok is FALSE when the wrap-around divides by zero (a list of
\* one item).
mix_item(item, current_list) ==
    LET idx == index(current_list, item)
        sum == idx + item.value
        wraps == sum < 0 \/ sum > Len(current_list)
    IN  IF wraps /\ Len(current_list) = 1
        THEN [ok |-> FALSE, list |-> <<>>]
        ELSE LET target_index ==
                     IF wraps THEN sum % (Len(current_list) - 1) ELSE sum
                 next_list == pop(current_list, idx)
             IN  [ok |-> TRUE,
                  list |-> slice(next_list, 0, target_index)
                           \o <<item>>
                           \o slice(next_list, target_index, Len(next_list))]

\* A list of n items in the order of their positions, the item at place k
\* having value v and every other item its position as value.
MixList(n, k, v) ==
    [i \in 1..n |-> Input(IF i = k + 1 THEN v ELSE i - 1, i - 1)]

InitMix ==
    /\ DriverAtRest
    /\ \E n \in 1..MaxItems :
          \E k \in 0..(n - 1), v \in (-MaxValue)..MaxValue :
              call = [fn |-> "mix_item",
                      item |-> MixList(n, k, v)[k + 1],
                      current_list |-> MixList(n, k, v)]
    /\ ret = NoRet

CallMixItem ==
    /\ call.fn = "mix_item"
    /\ ~ret.done
    /\ ret' = Returned(mix_item(call.item, call.current_list))
    /\ UNCHANGED <<driverVars, call>>

NextMix == CallMixItem

SpecMix == InitMix /\ [][NextMix]_vars

\* The other items of a list in circular order, from the one after the item
AfterItem(list, it) ==
    LET k == index(list, it) + 1
    IN  SubSeq(list, k + 1, Len(list)) \o SubSeq(list, 1, k - 1)

RotateLeft(s, r) == SubSeq(s, r + 1, Len(s)) \o SubSeq(s, 1, r)

\* C29: mix_item on an item of value v in a list of n items returns a
\* permutation of the list in which the item has moved v places forward
\* (backward for a negative v) in the circular order of the n - 1 other
\* items, whose circular order is unchanged, index + v equal to 0 or to n
\* included.
C29_MixItemCircular ==
    (call.fn = "mix_item" /\ ret.done /\ Len(call.current_list) >= 2) =>
        LET n == Len(call.current_list)
            result == ret.value.list
        IN  /\ ret.value.ok
            /\ Len(result) = n
            /\ \E i \in 1..n : result[i] = call.item
            /\ AfterItem(result, call.item) =
                   RotateLeft(AfterItem(call.current_list, call.item),
                              call.item.value % (n - 1))

----------------------------------------------------------------------------
(* Day 25: encode(number) and decode(snafu) *)

MaxNumber == 130

\* The dictionary of decode: the value of a SNAFU digit
numbers(c) ==
    CASE c = "=" -> -2 [] c = "-" -> -1 [] c = "0" -> 0
      [] c = "1" -> 1 [] c = "2" -> 2

RECURSIVE decode(_)
decode(snafu_string) ==
    IF snafu_string = <<>> THEN 0
    ELSE numbers(snafu_string[Len(snafu_string)])
         + 5 * decode(slice(snafu_string, 0, -1))

\* The dictionary of _encode: the SNAFU digit of a value
snafu(r) ==
    CASE r = -2 -> "=" [] r = -1 -> "-" [] r = 0 -> "0"
      [] r = 1 -> "1" [] r = 2 -> "2"

\* _encode keeping the quotient as it is when the digit is negative.
RECURSIVE _encode_no_carry(_)
_encode_no_carry(number) ==
    IF number = 0 THEN <<>>
    ELSE LET remainder == number % 5
         IN  IF remainder < 3
             THEN _encode_no_carry(number \div 5) \o <<snafu(remainder)>>
             ELSE _encode_no_carry(number \div 5) \o <<snafu(remainder - 5)>>

RECURSIVE _encode(_)
_encode(number) ==
    IF number = 0 THEN <<>>
    ELSE LET remainder == number % 5
         IN  IF remainder < 3
             THEN _encode(number \div 5) \o <<snafu(remainder)>>
             ELSE _encode(1 + number \div 5) \o <<snafu(remainder - 5)>>

encode(number) == IF number = 0 THEN <<"0">> ELSE _encode(number)

InitSnafu ==
    /\ DriverAtRest
    /\ \E number \in 0..MaxNumber : call = [fn |-> "encode", number |-> number]
    /\ ret = [done |-> FALSE, stage |-> 0, value |-> <<>>, snafu |-> <<>>]

CallEncode ==
    /\ call.fn = "encode"
    /\ ret.stage = 0
    /\ ret' = [done |-> FALSE, stage |-> 1, value |-> <<>>,
               snafu |-> encode(call.number)]
    /\ UNCHANGED <<driverVars, call>>

\* decode is called on what encode returned.
CallDecode ==
    /\ call.fn = "encode"
    /\ ret.stage = 1
    /\ ret' = [done |-> TRUE, stage |-> 2, value |-> decode(ret.snafu),
               snafu |-> ret.snafu]
    /\ UNCHANGED <<driverVars, call>>

NextSnafu == CallEncode \/ CallDecode

SpecSnafu == InitSnafu /\ [][NextSnafu]_vars

SnafuDigits == {"=", "-", "0", "1", "2"}

\* C30: for every integer n >= 0, decode(encode(n)) is n, and encode(n) is
\* a non-empty string of the digits = - 0 1 2 that begins with 0 only when
\* n is 0.
C30_SnafuRoundTrip ==
    /\ (call.fn = "encode" /\ ret.stage >= 1) =>
           /\ ret.snafu # <<>>
           /\ \A i \in 1..Len(ret.snafu) : ret.snafu[i] \in SnafuDigits
           /\ ret.snafu[1] = "0" => call.number = 0
    /\ (call.fn = "encode" /\ ret.stage = 2) => ret.value = call.number

\* 8 has been encoded as 2= (two fives less two) and decoded again.
C30_Witness ==
    /\ call.fn = "encode"
    /\ ret.stage = 2
    /\ call.number = 8
    /\ ret.snafu = <<"2", "=">>
    /\ ret.value = 8

====
